---- MODULE Spec2Model ----
(***************************************************************************)
(* Hospital routing engine of Algo.py: hard filters, weighted score,       *)
(* specialist load with the demand overlay, selection, and send_patient.   *)
(*                                                                         *)
(* Representation.                                                         *)
(*  - A Python str is a sequence of one-character strings, so that         *)
(*    lower(), strip(), startswith() and the `in` substring test are       *)
(*    computed character by character.                                     *)
(*  - An optional value is a sequence of length <= 1: None is <<>> and a   *)
(*    value v is <<v>>.  dict.get(k) of a missing key is None.             *)
(*  - Canonical specialty names and capability names are TLA+ strings.     *)
(*  - A float is an exact rational [n, d] with d > 0.  The inputs of the   *)
(*    model are whole numbers, for which the comparisons made by the code  *)
(*    on the resulting scores agree with the exact ones except where two   *)
(*    scores differ by less than the float rounding error.                 *)
(***************************************************************************)
EXTENDS Integers, Sequences, FiniteSets, TLC

None == <<>>
Some(v) == <<v>>

(* ---------------------------------------------------------------------- *)
(* str primitives                                                          *)
(* ---------------------------------------------------------------------- *)
UpperLetters ==
  <<"A","B","C","D","E","F","G","H","I","J","K","L","M",
    "N","O","P","Q","R","S","T","U","V","W","X","Y","Z">>

LowerLetters ==
  <<"a","b","c","d","e","f","g","h","i","j","k","l","m",
    "n","o","p","q","r","s","t","u","v","w","x","y","z">>

Digits == <<"0","1","2","3","4","5","6","7","8","9">>

\* The lower-case letter of each upper-case letter, and the converse.
ToLower == [c \in {UpperLetters[i] : i \in 1..26} |->
              LowerLetters[CHOOSE i \in 1..26 : UpperLetters[i] = c]]

ToUpper == [c \in {LowerLetters[i] : i \in 1..26} |->
              UpperLetters[CHOOSE i \in 1..26 : LowerLetters[i] = c]]

LowerChar(c) == IF c \in DOMAIN ToLower THEN ToLower[c] ELSE c

UpperChar(c) == IF c \in DOMAIN ToUpper THEN ToUpper[c] ELSE c

\* str.lower()
Lower(s) == [i \in 1..Len(s) |-> LowerChar(s[i])]

\* str.upper()
Upper(s) == [i \in 1..Len(s) |-> UpperChar(s[i])]

IsSpace(c) == c \in {" ", "\t", "\n", "\r"}

RECURSIVE LStrip(_)
LStrip(s) == IF s # <<>> /\ IsSpace(Head(s)) THEN LStrip(Tail(s)) ELSE s

RECURSIVE RStrip(_)
RStrip(s) ==
  IF s # <<>> /\ IsSpace(s[Len(s)]) THEN RStrip(SubSeq(s, 1, Len(s) - 1)) ELSE s

\* str.strip()
Strip(s) == RStrip(LStrip(s))

\* sub in s
Contains(sub, s) ==
  \E i \in 0..(Len(s) - Len(sub)) : SubSeq(s, i + 1, i + Len(sub)) = sub

\* s.startswith(p)
StartsWith(s, p) == Len(s) >= Len(p) /\ SubSeq(s, 1, Len(p)) = p

\* Python truthiness of an optional str: None and "" are falsy.
Falsy(o) == o = None \/ o[1] = <<>>

\* (o or "")
OrEmpty(o) == IF Falsy(o) THEN <<>> ELSE o[1]

\* dict.get(key)
Get(d, key) == IF key \in DOMAIN d THEN Some(d[key]) ELSE None

\* dict.get(key, default)
GetDefault(d, key, default) == IF key \in DOMAIN d THEN d[key] ELSE default

(* ---------------------------------------------------------------------- *)
(* _num: float(v), 0.0 on TypeError (None) and ValueError (not a number).  *)
(* The numerals read here are optionally signed whole numbers, with the    *)
(* surrounding whitespace float() accepts.                                 *)
(* ---------------------------------------------------------------------- *)
DigitValues == [c \in {Digits[i] : i \in 1..10} |->
                  (CHOOSE i \in 1..10 : Digits[i] = c) - 1]

IsDigit(c) == c \in DOMAIN DigitValues

DigitValue(c) == DigitValues[c]

RECURSIVE DigitsValue(_)
DigitsValue(s) ==
  IF s = <<>> THEN 0
  ELSE 10 * DigitsValue(SubSeq(s, 1, Len(s) - 1)) + DigitValue(s[Len(s)])

IsDigits(s) == Len(s) > 0 /\ \A i \in 1..Len(s) : IsDigit(s[i])

_num(v) ==
  IF v = None THEN 0
  ELSE LET t == Strip(v[1])
       IN IF IsDigits(t) THEN DigitsValue(t)
          ELSE IF Len(t) > 1 /\ t[1] = "-" /\ IsDigits(Tail(t))
               THEN 0 - DigitsValue(Tail(t))
          ELSE IF Len(t) > 1 /\ t[1] = "+" /\ IsDigits(Tail(t))
               THEN DigitsValue(Tail(t))
          ELSE 0

\* The text of a whole number, as a CSV cell holds it.
RECURSIVE Numeral(_)
Numeral(n) ==
  IF n < 0 THEN <<"-">> \o Numeral(0 - n)
  ELSE IF n < 10 THEN <<Digits[n + 1]>>
  ELSE Numeral(n \div 10) \o <<Digits[(n % 10) + 1]>>

(* ---------------------------------------------------------------------- *)
(* Exact rationals                                                         *)
(* ---------------------------------------------------------------------- *)
Rat(n, d) == [n |-> n, d |-> d]
RAdd(a, b) == Rat(a.n * b.d + b.n * a.d, a.d * b.d)
RLess(a, b) == a.n * b.d < b.n * a.d
REq(a, b) == a.n * b.d = b.n * a.d

\* round(x, k) for k decimals, as a whole number of 10^-k units; ties go to
\* the even neighbour.
Pow10(k) == IF k = 0 THEN 1 ELSE IF k = 1 THEN 10 ELSE 100

Round(x, k) ==
  LET m == x.n * Pow10(k)
      q == m \div x.d
      r == m % x.d
  IN IF 2 * r < x.d THEN q
     ELSE IF 2 * r > x.d THEN q + 1
     ELSE IF q % 2 = 0 THEN q ELSE q + 1

SPECIALTY_NAMES == {"Cardiology", "Trauma", "Neurology"}

T_general == <<"g","e","n","e","r","a","l">>
T_cardiac == <<"c","a","r","d","i","a","c">>
T_stemi == <<"s","t","e","m","i">>
T_heart == <<"h","e","a","r","t">>
T_trauma == <<"t","r","a","u","m","a">>
T_stroke == <<"s","t","r","o","k","e">>
T_neuro == <<"n","e","u","r","o">>
T_pediatric == <<"p","e","d","i","a","t","r","i","c">>
T_peds == <<"p","e","d","s">>
T_yes == <<"y","e","s">>
T_NA == <<"N","/","A">>
T_none == <<"n","o","n","e">>
T_capable == <<"c","a","p","a","b","l","e">>
T_primary == <<"p","r","i","m","a","r","y">>
T_comprehensive == <<"c","o","m","p","r","e","h","e","n","s","i","v","e">>
T_limited == <<"l","i","m","i","t","e","d">>
T_nicu == <<"n","i","c","u">>

(* ---------------------------------------------------------------------- *)
(* Inputs: the lines of the hospital CSV and the NLP requests               *)
(* ---------------------------------------------------------------------- *)
MaxHospitals == 2
MaxSends == 2
NumThreads == 2

N_A == <<"A">>
N_B == <<"B">>
N_C == <<"C">>

T_no == <<"n","o">>
T_Yes == <<"Y","e","s">>
T_Cardiac == <<"C","a","r","d","i","a","c">>
T_Trauma == <<"T","r","a","u","m","a">>
T_burn == <<"b","u","r","n">>

\* One line of the hospital CSV, as csv.DictReader yields it.
MkRow(name, diversion, trauma, cath, icu, ed, doctors, patients) ==
  [hospital_name |-> name,
   ed_diversion_sim |-> diversion,
   trauma_level |-> trauma,
   stroke_center_level |-> <<"P","r","i","m","a","r","y">>,
   cardiac_cath_lab |-> cath,
   pediatric_specialty |-> <<"N","o">>,
   latitude |-> Numeral(30),
   longitude |-> Numeral(0 - 97),
   available_icu_beds_sim |-> Numeral(icu),
   available_ed_beds_sim |-> Numeral(ed),
   er_wait_min_sim |-> Numeral(10),
   on_call_ed_physicians_sim |-> Numeral(2),
   ambulance_travel_time_min_sim |-> Numeral(12),
   specialists_Cardiology |-> Numeral(doctors),
   specialist_patients_Cardiology |-> Numeral(patients),
   specialists_Trauma |-> Numeral(1),
   specialist_patients_Trauma |-> Numeral(0),
   specialists_Neurology |-> Numeral(0),
   specialist_patients_Neurology |-> Numeral(0)]

\* A line with cells missing, empty or not numeric.
SparseRow(name) ==
  [hospital_name |-> name,
   trauma_level |-> <<>>,
   stroke_center_level |-> <<"N","o","n","e">>,
   cardiac_cath_lab |-> T_Yes,
   pediatric_specialty |-> <<"L","i","m","i","t","e","d">>,
   latitude |-> <<"3","0">>,
   longitude |-> <<"-","9","7">>,
   available_icu_beds_sim |-> <<" ","2"," ">>,
   available_ed_beds_sim |-> <<"2">>,
   on_call_ed_physicians_sim |-> <<"n","/","a">>,
   ambulance_travel_time_min_sim |-> <<"1","2">>,
   specialist_patients_Cardiology |-> <<"4">>]

\* Two lines that differ in the identifier alone (A and C), a line on
\* diversion that would otherwise score best, a line with a cath lab and no
\* cardiologist, and a sparse line.
Catalogue ==
  { MkRow(N_A, T_no, <<"I">>, T_Yes, 1, 2, 2, 3),
    MkRow(N_C, T_no, <<"I">>, T_Yes, 1, 2, 2, 3),
    MkRow(N_A, <<"Y","E","S">>, <<"i","i">>, T_Yes, 3, 5, 3, 0),
    MkRow(N_B, T_no, T_NA, <<" ","y","e","s">>, 2, 2, 0, 0),
    SparseRow(N_B) }

\* The requests: the NLP output as a dict; a key may be missing.
SingleRequests ==
  { [acuity_level |-> 1, required_specialty |-> T_Cardiac],
    [acuity_level |-> 3, required_specialty |-> T_Cardiac],
    [acuity_level |-> 1, required_specialty |-> T_Trauma],
    [acuity_level |-> 3, required_specialty |-> T_peds],
    [acuity_level |-> 3, required_specialty |-> <<"G","e","n","e","r","a","l">>],
    [acuity_level |-> 2],
    [required_specialty |-> <<"S","T","E","M","I">>] }

ListRequests ==
  { [acuity_level |-> 3, required_specialty |-> T_Cardiac,
     required_specialties |-> <<T_cardiac, T_heart>>],
    [acuity_level |-> 2, required_specialties |-> <<T_trauma, T_burn, T_stroke>>],
    [acuity_level |-> 3, required_specialty |-> T_Cardiac,
     required_specialties |-> <<>>] }

Requests == SingleRequests \cup ListRequests

(* ---------------------------------------------------------------------- *)
(* Specialty mapping and capability predicates                             *)
(* ---------------------------------------------------------------------- *)
\* Returns Some(canonical name) or None.
_nlp_specialty_to_column(specialty) ==
  IF Falsy(specialty) \/ Lower(OrEmpty(specialty)) = T_general THEN None
  ELSE LET s == Lower(specialty[1])
       IN IF Contains(T_cardiac, s) \/ Contains(T_stemi, s) \/ Contains(T_heart, s)
          THEN Some("Cardiology")
          ELSE IF Contains(T_trauma, s) THEN Some("Trauma")
          ELSE IF Contains(T_stroke, s) \/ Contains(T_neuro, s) THEN Some("Neurology")
          ELSE None

_has_trauma_capability(trauma_level) ==
  IF Falsy(trauma_level) \/ trauma_level = Some(T_NA) THEN FALSE
  ELSE StartsWith(Upper(trauma_level[1]), <<"I">>)

_has_stroke_capability(stroke_level) ==
  IF Falsy(stroke_level) THEN FALSE
  ELSE LET u == Lower(stroke_level[1])
       IN IF Contains(T_none, u) /\ ~Contains(T_capable, u) THEN FALSE
          ELSE Contains(T_primary, u) \/ Contains(T_comprehensive, u)
                 \/ Contains(T_capable, u)

_has_cardiac_capability(cardiac_cath_lab) ==
  Lower(Strip(OrEmpty(cardiac_cath_lab))) = T_yes

_has_pediatric_capability(pediatric_specialty) ==
  IF Falsy(pediatric_specialty) THEN FALSE
  ELSE LET u == Lower(pediatric_specialty[1])
       IN Contains(T_yes, u) \/ Contains(T_limited, u) \/ Contains(T_nicu, u)

\* Returns Some(capability) or None.
_specialty_requires_capability(specialty) ==
  IF Falsy(specialty) \/ Lower(OrEmpty(specialty)) = T_general THEN None
  ELSE LET s == Lower(specialty[1])
       IN IF Contains(T_trauma, s) THEN Some("trauma")
          ELSE IF Contains(T_stroke, s) THEN Some("stroke")
          ELSE IF Contains(T_cardiac, s) \/ Contains(T_stemi, s) \/ Contains(T_heart, s)
               THEN Some("cardiac")
          ELSE IF Contains(T_pediatric, s) \/ Contains(T_peds, s) THEN Some("pediatric")
          ELSE None

\* The test of the diversion flag without lower().
IsYes_CaseSensitive(cell) == Strip(OrEmpty(cell)) = T_yes

\* (cell or "").strip().lower() == "yes", the test of the diversion flag.
IsYes(cell) == Lower(Strip(OrEmpty(cell))) = T_yes

_hospital_has_required_capability(row, required_cap) ==
  IF required_cap = None THEN TRUE
  ELSE IF required_cap[1] = "trauma"
       THEN _has_trauma_capability(Get(row, "trauma_level"))
  ELSE IF required_cap[1] = "stroke"
       THEN _has_stroke_capability(Get(row, "stroke_center_level"))
  ELSE IF required_cap[1] = "cardiac"
       THEN _has_cardiac_capability(Get(row, "cardiac_cath_lab"))
  ELSE IF required_cap[1] = "pediatric"
       THEN _has_pediatric_capability(Get(row, "pediatric_specialty"))
  ELSE TRUE

(* ---------------------------------------------------------------------- *)
(* Demand overlay reads                                                    *)
(* ---------------------------------------------------------------------- *)
\* f"specialists_{specialty}"
col_doc(specialty) ==
  CASE specialty = "Cardiology" -> "specialists_Cardiology"
    [] specialty = "Trauma" -> "specialists_Trauma"
    [] specialty = "Neurology" -> "specialists_Neurology"

\* f"specialist_patients_{specialty}"
col_pat(specialty) ==
  CASE specialty = "Cardiology" -> "specialist_patients_Cardiology"
    [] specialty = "Trauma" -> "specialist_patients_Trauma"
    [] specialty = "Neurology" -> "specialist_patients_Neurology"

Max(a, b) == IF a >= b THEN a ELSE b

\* _sent_patient_overlay.get(hospital_name, {})
OverlayOf(ov, hospital_name) ==
  IF hospital_name \in DOMAIN ov THEN ov[hospital_name] ELSE <<>>

\* The load without the overlay's patient delta.
_get_specialist_load_NoOverlay(row, specialty, hospital_name, ov) ==
  IF specialty = None \/ specialty[1] \notin SPECIALTY_NAMES THEN None
  ELSE LET num_doctors == _num(Get(row, col_doc(specialty[1])))
       IN IF num_doctors <= 0 THEN None
          ELSE Some(Rat(Max(0, _num(Get(row, col_pat(specialty[1])))), num_doctors))

\* Specialist load = (csv specialist_patients + overlay) / specialists, as
\* Some(rational); None if the specialty is unset or unknown or the hospital
\* has no specialists.
_get_specialist_load(row, specialty, hospital_name, ov) ==
  IF specialty = None \/ specialty[1] \notin SPECIALTY_NAMES THEN None
  ELSE LET num_doctors == _num(Get(row, col_doc(specialty[1])))
       IN IF num_doctors <= 0 THEN None
          ELSE LET csv_patients == _num(Get(row, col_pat(specialty[1])))
                   overlay == GetDefault(OverlayOf(ov, hospital_name),
                                         "specialist_patients_delta", <<>>)
                   patients == Max(0, csv_patients
                                        + GetDefault(overlay, specialty[1], 0))
               IN Some(Rat(patients, num_doctors))

\* The flag without the test of the number of specialists.
_has_specialist_for_AnyCanonical(row, specialty, hospital_name, ov) ==
  specialty # None /\ specialty[1] \in SPECIALTY_NAMES

_has_specialist_for(row, specialty, hospital_name, ov) ==
  _get_specialist_load(row, specialty, hospital_name, ov) # None

\* int(nlp_data.get("acuity_level", 3))
Acuity(nlp_data) == GetDefault(nlp_data, "acuity_level", 3)

(* ---------------------------------------------------------------------- *)
(* Hard filters                                                            *)
(* ---------------------------------------------------------------------- *)
\* The loop body with the ICU test `icu_avail < 0`.
PassesHardFilters_IcuBelowZero(row, nlp_data, ov) ==
  LET acuity == Acuity(nlp_data)
      required_cap == _specialty_requires_capability(Get(nlp_data, "required_specialty"))
      is_critical == acuity <= 2
  IN IF IsYes(Get(row, "ed_diversion_sim")) THEN FALSE
     ELSE IF ~_hospital_has_required_capability(row, required_cap) THEN FALSE
     ELSE IF is_critical
             /\ _num(Get(row, "available_icu_beds_sim"))
                  + GetDefault(OverlayOf(ov, row["hospital_name"]), "icu_beds_delta", 0)
                < 0
          THEN FALSE
     ELSE TRUE

\* The body of the loop of _apply_hard_filters: TRUE iff row is appended.
PassesHardFilters(row, nlp_data, ov) ==
  LET acuity == Acuity(nlp_data)
      required_cap == _specialty_requires_capability(Get(nlp_data, "required_specialty"))
      is_critical == acuity <= 2
  IN IF IsYes(Get(row, "ed_diversion_sim")) THEN FALSE
     ELSE IF ~_hospital_has_required_capability(row, required_cap) THEN FALSE
     ELSE IF is_critical
             /\ _num(Get(row, "available_icu_beds_sim"))
                  + GetDefault(OverlayOf(ov, row["hospital_name"]), "icu_beds_delta", 0)
                <= 0
          THEN FALSE
     ELSE TRUE

_apply_hard_filters(rows, nlp_data, ov) ==
  LET Keep(row) == PassesHardFilters(row, nlp_data, ov)
  IN SelectSeq(rows, Keep)

(* ---------------------------------------------------------------------- *)
(* Score: lower is better                                                  *)
(* ---------------------------------------------------------------------- *)
specialist_load_weight == 20
no_specialist_penalty == 500

\* The score without the floor max(0, ...) of the available ED beds.
_score_hospital_NoFloor(row, eta_minutes, nlp_data, ov) ==
  LET acuity == Acuity(nlp_data)
      er_wait == _num(Get(row, "er_wait_min_sim"))
      ed_beds_raw == _num(Get(row, "available_ed_beds_sim"))
      overlay == OverlayOf(ov, row["hospital_name"])
      available_ed_beds == ed_beds_raw + GetDefault(overlay, "ed_beds_delta", 0)
      physicians == _num(Get(row, "on_call_ed_physicians_sim"))
      icu_avail == Max(0, _num(Get(row, "available_icu_beds_sim"))
                            + GetDefault(overlay, "icu_beds_delta", 0))
      s1 == 10 * eta_minutes + 5 * er_wait
      s2 == s1 - 20 * available_ed_beds
      s3 == s2 - 3 * physicians
      s4 == IF acuity <= 2 /\ icu_avail <= 1 THEN s3 + 10 * 50 ELSE s3
      required_specialty == _nlp_specialty_to_column(Get(nlp_data, "required_specialty"))
  IN IF required_specialty # None
     THEN LET load == _get_specialist_load(row, required_specialty,
                                           row["hospital_name"], ov)
          IN IF load = None
             THEN IF acuity <= 2
                  THEN Rat(s4 + 10 * no_specialist_penalty, 10)
                  ELSE Rat(s4, 10)
             ELSE RAdd(Rat(s4, 10), Rat(specialist_load_weight * load[1].n, load[1].d))
     ELSE Rat(s4, 10)

\* eta_minutes is a whole number of minutes.  The running score is kept in
\* tenths (the weights 1.0, 0.5, 2.0 and 0.3 over the denominator 10) until
\* the specialist term, whose denominator is the number of specialists.
_score_hospital(row, eta_minutes, nlp_data, ov) ==
  LET acuity == Acuity(nlp_data)
      er_wait == _num(Get(row, "er_wait_min_sim"))
      ed_beds_raw == _num(Get(row, "available_ed_beds_sim"))
      overlay == OverlayOf(ov, row["hospital_name"])
      available_ed_beds == Max(0, ed_beds_raw + GetDefault(overlay, "ed_beds_delta", 0))
      physicians == _num(Get(row, "on_call_ed_physicians_sim"))
      icu_avail == Max(0, _num(Get(row, "available_icu_beds_sim"))
                            + GetDefault(overlay, "icu_beds_delta", 0))
      s1 == 10 * eta_minutes + 5 * er_wait
      s2 == s1 - 20 * available_ed_beds
      s3 == s2 - 3 * physicians
      s4 == IF acuity <= 2 /\ icu_avail <= 1 THEN s3 + 10 * 50 ELSE s3
      required_specialty == _nlp_specialty_to_column(Get(nlp_data, "required_specialty"))
  IN IF required_specialty # None
     THEN LET load == _get_specialist_load(row, required_specialty,
                                           row["hospital_name"], ov)
          IN IF load = None
             THEN IF acuity <= 2
                  THEN Rat(s4 + 10 * no_specialist_penalty, 10)
                  ELSE Rat(s4, 10)
             ELSE RAdd(Rat(s4, 10), Rat(specialist_load_weight * load[1].n, load[1].d))
     ELSE Rat(s4, 10)

(* ---------------------------------------------------------------------- *)
(* Selection                                                               *)
(* ---------------------------------------------------------------------- *)
\* A sort step that is not stable: x goes before the elements of its score.
SortInsert_Unstable(sorted, x) ==
  LET k == Cardinality({i \in 1..Len(sorted) : RLess(sorted[i].score, x.score)})
  IN SubSeq(sorted, 1, k) \o <<x>> \o SubSeq(sorted, k + 1, Len(sorted))

\* One step of the stable sort by score: x goes after every element whose
\* score is not greater than its own.
SortInsert(sorted, x) ==
  LET k == Cardinality({i \in 1..Len(sorted) : ~RLess(x.score, sorted[i].score)})
  IN SubSeq(sorted, 1, k) \o <<x>> \o SubSeq(sorted, k + 1, Len(sorted))

\* scored.sort(key=lambda x: x[0])
RECURSIVE SortByScore(_)
SortByScore(scored) ==
  IF scored = <<>> THEN <<>>
  ELSE SortInsert(SortByScore(SubSeq(scored, 1, Len(scored) - 1)), scored[Len(scored)])

\* The ETA the loop of get_optimal_hospital takes for a row; etas_from_api is
\* None or Some(dict hospital_name -> minutes).
EtaOf(row, etas_from_api) ==
  IF etas_from_api = None
  THEN _num(Get(row, "ambulance_travel_time_min_sim"))
  ELSE GetDefault(etas_from_api[1], row["hospital_name"], 999)

\* scored, before the sort.
Scored(filtered, etas_from_api, nlp_data, ov) ==
  [i \in 1..Len(filtered) |->
     [score |-> _score_hospital(filtered[i], EtaOf(filtered[i], etas_from_api),
                                nlp_data, ov),
      row |-> filtered[i],
      eta |-> EtaOf(filtered[i], etas_from_api)]]

\* Returns None or Some(result dict).  routing_score is in hundredths and
\* eta_minutes in tenths; specialist_load is None or Some(hundredths).
\* latitude and longitude are whole degrees.
get_optimal_hospital(all_rows, nlp_extracted_data, etas_from_api, ov) ==
  LET filtered == _apply_hard_filters(all_rows, nlp_extracted_data, ov)
  IN IF filtered = <<>> THEN None
     ELSE LET scored == SortByScore(Scored(filtered, etas_from_api,
                                           nlp_extracted_data, ov))
              best_score == scored[1].score
              best_row == scored[1].row
              best_eta == scored[1].eta
              required_specialty ==
                _nlp_specialty_to_column(Get(nlp_extracted_data, "required_specialty"))
              specialist_load ==
                IF required_specialty # None
                THEN _get_specialist_load(best_row, required_specialty,
                                          best_row["hospital_name"], ov)
                ELSE None
              specialist_ready ==
                IF required_specialty # None
                THEN _has_specialist_for(best_row, required_specialty,
                                         best_row["hospital_name"], ov)
                ELSE TRUE
          IN Some([hospital_id |-> best_row["hospital_name"],
                   hospital_name |-> best_row["hospital_name"],
                   routing_score |-> Round(best_score, 2),
                   eta_minutes |-> Round(Rat(best_eta, 1), 1),
                   latitude |-> _num(Get(best_row, "latitude")),
                   longitude |-> _num(Get(best_row, "longitude")),
                   available_ed_beds |-> _num(Get(best_row, "available_ed_beds_sim")),
                   available_icu_beds |-> _num(Get(best_row, "available_icu_beds_sim")),
                   er_wait_min |-> _num(Get(best_row, "er_wait_min_sim")),
                   trauma_level |-> Get(best_row, "trauma_level"),
                   stroke_center_level |-> Get(best_row, "stroke_center_level"),
                   cardiac_cath_lab |-> Get(best_row, "cardiac_cath_lab"),
                   specialist_ready |-> specialist_ready,
                   specialist_load |->
                     IF specialist_load # None
                     THEN Some(Round(specialist_load[1], 2))
                     ELSE None])

(* ---------------------------------------------------------------------- *)
(* send_patient                                                            *)
(* ---------------------------------------------------------------------- *)
\* A list comprehension [f(x) for x in xs if f(x)] over optional results.
RECURSIVE MappedSpecialties(_)
MappedSpecialties(specs) ==
  IF specs = <<>> THEN <<>>
  ELSE LET s == _nlp_specialty_to_column(Some(Head(specs)))
       IN (IF s # None THEN <<s[1]>> ELSE <<>>) \o MappedSpecialties(Tail(specs))

\* A list of canonical names.  isinstance(specs, (list, tuple)) holds iff the
\* key required_specialties is present: the requests of the model carry a
\* list there or nothing.
_get_required_specialties_from_nlp(nlp_data) ==
  IF "required_specialties" \in DOMAIN nlp_data
  THEN MappedSpecialties(nlp_data["required_specialties"])
  ELSE LET one == _nlp_specialty_to_column(Get(nlp_data, "required_specialty"))
       IN IF one # None THEN <<one[1]>> ELSE <<>>

EmptyEntry ==
  [ed_beds_delta |-> 0, icu_beds_delta |-> 0, specialist_patients_delta |-> <<>>]

\* _sent_patient_overlay.setdefault(hospital_id, {...})
SetDefault(ov, hospital_id) ==
  IF hospital_id \in DOMAIN ov THEN ov ELSE ov @@ (hospital_id :> EmptyEntry)

\* delta[specialty] = delta.get(specialty, 0) + 1
Bump(delta, specialty) ==
  [k \in (DOMAIN delta) \cup {specialty} |->
     IF k = specialty THEN GetDefault(delta, specialty, 0) + 1 ELSE delta[k]]

\* The for loop of send_patient over the required specialties.
RECURSIVE BumpAll(_, _)
BumpAll(delta, specialties) ==
  IF specialties = <<>> THEN delta
  ELSE BumpAll(Bump(delta, Head(specialties)), Tail(specialties))

\* A send_patient that takes the ED bed from every entry of the overlay.
send_patient_EveryEntry(ov, hospital_id, nlp_data) ==
  IF hospital_id = None \/ hospital_id[1] = <<>> THEN ov
  ELSE LET id == hospital_id[1]
           o1 == SetDefault(ov, id)
           o2 == [h \in DOMAIN o1 |-> [o1[h] EXCEPT !.ed_beds_delta = @ - 1]]
           e2 == IF Acuity(nlp_data) <= 2
                 THEN [o2[id] EXCEPT !.icu_beds_delta = @ - 1]
                 ELSE o2[id]
           e3 == [e2 EXCEPT !.specialist_patients_delta =
                    BumpAll(@, _get_required_specialties_from_nlp(nlp_data))]
       IN [o2 EXCEPT ![id] = e3]

\* The overlay after send_patient(hospital_id, nlp_data) ran alone.
send_patient(ov, hospital_id, nlp_data) ==
  IF hospital_id = None \/ hospital_id[1] = <<>> THEN ov
  ELSE LET id == hospital_id[1]
           o1 == SetDefault(ov, id)
           e1 == [o1[id] EXCEPT !.ed_beds_delta = @ - 1]
           e2 == IF Acuity(nlp_data) <= 2
                 THEN [e1 EXCEPT !.icu_beds_delta = @ - 1]
                 ELSE e1
           e3 == [e2 EXCEPT !.specialist_patients_delta =
                    BumpAll(@, _get_required_specialties_from_nlp(nlp_data))]
       IN [o1 EXCEPT ![id] = e3]

(* ---------------------------------------------------------------------- *)
(* Datasets and the travel-time service                                    *)
(* ---------------------------------------------------------------------- *)
RECURSIVE SeqsUpTo(_, _)
SeqsUpTo(S, n) ==
  IF n = 0 THEN {<<>>}
  ELSE LET shorter == SeqsUpTo(S, n - 1)
       IN shorter \cup {Append(q, x) : q \in {r \in shorter : Len(r) = n - 1}, x \in S}

\* The datasets: up to MaxHospitals lines with distinct identifiers.
Datasets ==
  {rows \in SeqsUpTo(Catalogue, MaxHospitals) :
     \A i, j \in 1..Len(rows) :
        i # j => rows[i]["hospital_name"] # rows[j]["hospital_name"]}

\* The identifiers handed to send_patient.
HospitalIds == {None, Some(<<>>), Some(N_A), Some(N_B)}

\* The minutes the distance matrix reports; 999 stands for a failed element.
EtaValues == {5, 999}

Names(rows) == {rows[i]["hospital_name"] : i \in 1..Len(rows)}

\* What fetch_etas_from_matrix can return for rows, every one of which has
\* its latitude and longitude: None (no key, or the request failed), or a
\* dict with an entry for every row.
fetch_etas_from_matrix(rows) ==
  {None} \cup {Some(etas) : etas \in [Names(rows) -> EtaValues]}

(* ---------------------------------------------------------------------- *)
(* State                                                                   *)
(* ---------------------------------------------------------------------- *)
VARIABLES
  hospitals,   \* _cached_hospitals: the dataset, in file order
  overlay,     \* _sent_patient_overlay
  call,        \* the last call made: its name and arguments
  before,      \* the overlay when the last call was made
  result,      \* what the last get_optimal_hospital returned
  sends,       \* number of send_patient calls made
  threads      \* the concurrent send_patient calls: position and locals

vars == <<hospitals, overlay, call, before, result, sends, threads>>

NoCall == [op |-> "none", hospital_id |-> None, nlp_data |-> <<>>, etas |-> None]

IdleThread ==
  [pc |-> "idle", hospital_id |-> None, nlp_data |-> <<>>, tmp |-> 0, todo |-> <<>>]

Init ==
  /\ hospitals \in Datasets
  /\ overlay = <<>>
  /\ call = NoCall
  /\ before = <<>>
  /\ result = None
  /\ sends = 0
  /\ threads = [t \in 1..NumThreads |-> IdleThread]

\* A caller routes a patient.
GetOptimalHospital(nlp_data, etas_from_api) ==
  /\ result' = get_optimal_hospital(hospitals, nlp_data, etas_from_api, overlay)
  /\ call' = [op |-> "get_optimal_hospital", hospital_id |-> None,
              nlp_data |-> nlp_data, etas |-> etas_from_api]
  /\ before' = overlay
  /\ UNCHANGED <<hospitals, overlay, sends, threads>>

\* A caller commits a patient to a hospital; the call runs alone.
SendPatient(hospital_id, nlp_data) ==
  /\ sends < MaxSends
  /\ sends' = sends + 1
  /\ overlay' = send_patient(overlay, hospital_id, nlp_data)
  /\ before' = overlay
  /\ call' = [op |-> "send_patient", hospital_id |-> hospital_id,
              nlp_data |-> nlp_data, etas |-> None]
  /\ result' = None
  /\ UNCHANGED <<hospitals, threads>>

\* The commits of the routing specification, to hospital A: of a critical
\* cardiac patient, and of a non-critical patient with a specialty list that
\* holds an entry no canonical specialty answers to.
RoutedCommits ==
  { [acuity_level |-> 1, required_specialty |-> T_Cardiac],
    [acuity_level |-> 3, required_specialty |-> T_Cardiac,
     required_specialties |-> <<T_trauma, T_burn, T_cardiac>>] }

\* Routing, between commits to one hospital.  get_optimal_hospital changes
\* nothing of the program's state, so a call made right after another one
\* reaches only what a single call reaches: the routing calls are taken from
\* the states that construction or a send_patient leaves.
Next ==
  \/ /\ call.op # "get_optimal_hospital"
     /\ \E nlp_data \in Requests :
          \E etas \in fetch_etas_from_matrix(
                        _apply_hard_filters(hospitals, nlp_data, overlay)) :
            GetOptimalHospital(nlp_data, etas)
  \/ \E nlp_data \in RoutedCommits :
       SendPatient(Some(N_A), nlp_data)

Spec == Init /\ [][Next]_vars

\* Commits alone, of every request to every identifier, over the datasets
\* of one line.
InitCommit ==
  /\ hospitals \in {<<row>> : row \in Catalogue}
  /\ overlay = <<>>
  /\ call = NoCall
  /\ before = <<>>
  /\ result = None
  /\ sends = 0
  /\ threads = [t \in 1..NumThreads |-> IdleThread]

NextCommit ==
  \E hospital_id \in HospitalIds, nlp_data \in Requests :
    SendPatient(hospital_id, nlp_data)

SpecCommit == InitCommit /\ [][NextCommit]_vars

(* ---------------------------------------------------------------------- *)
(* send_patient called from several threads.  The module takes no lock, so *)
(* the interpreter may switch threads between any two bytecodes: each      *)
(* `x[k] -= 1` and `delta[s] = delta.get(s, 0) + 1` is a read of the       *)
(* shared dict, then a write of it.  dict.setdefault is one step.          *)
(* ---------------------------------------------------------------------- *)
ThreadIds == {Some(<<>>), Some(N_A), Some(N_B)}

InitThreads ==
  /\ hospitals = <<>>
  /\ overlay = <<>>
  /\ call = NoCall
  /\ before = <<>>
  /\ result = None
  /\ sends = 0
  /\ threads = [t \in 1..NumThreads |-> IdleThread]

\* Lines 282-287: the test of hospital_id and the setdefault.
Enter(t, hospital_id, nlp_data) ==
  /\ threads[t].pc = "idle"
  /\ IF hospital_id = None \/ hospital_id[1] = <<>>
     THEN /\ threads' = [threads EXCEPT ![t].pc = "done",
                                        ![t].hospital_id = hospital_id,
                                        ![t].nlp_data = nlp_data]
          /\ UNCHANGED overlay
     ELSE /\ overlay' = SetDefault(overlay, hospital_id[1])
          /\ threads' = [threads EXCEPT ![t].pc = "ed_load",
                                        ![t].hospital_id = hospital_id,
                                        ![t].nlp_data = nlp_data]
  /\ UNCHANGED <<hospitals, call, before, result, sends>>

\* Line 288, the read of ed_beds_delta.
LoadEd(t) ==
  /\ threads[t].pc = "ed_load"
  /\ threads' = [threads EXCEPT
       ![t].pc = "ed_store",
       ![t].tmp = overlay[threads[t].hospital_id[1]].ed_beds_delta]
  /\ UNCHANGED <<hospitals, overlay, call, before, result, sends>>

\* Line 288, the write of ed_beds_delta; then the test of line 290.
StoreEd(t) ==
  /\ threads[t].pc = "ed_store"
  /\ overlay' = [overlay EXCEPT
       ![threads[t].hospital_id[1]].ed_beds_delta = threads[t].tmp - 1]
  /\ threads' = [threads EXCEPT
       ![t].pc = IF Acuity(threads[t].nlp_data) <= 2 THEN "icu_load" ELSE "specialties"]
  /\ UNCHANGED <<hospitals, call, before, result, sends>>

\* Line 291, the read of icu_beds_delta.
LoadIcu(t) ==
  /\ threads[t].pc = "icu_load"
  /\ threads' = [threads EXCEPT
       ![t].pc = "icu_store",
       ![t].tmp = overlay[threads[t].hospital_id[1]].icu_beds_delta]
  /\ UNCHANGED <<hospitals, overlay, call, before, result, sends>>

\* Line 291, the write of icu_beds_delta.
StoreIcu(t) ==
  /\ threads[t].pc = "icu_store"
  /\ overlay' = [overlay EXCEPT
       ![threads[t].hospital_id[1]].icu_beds_delta = threads[t].tmp - 1]
  /\ threads' = [threads EXCEPT ![t].pc = "specialties"]
  /\ UNCHANGED <<hospitals, call, before, result, sends>>

\* Lines 292-293: the list the loop runs over.
Specialties(t) ==
  /\ threads[t].pc = "specialties"
  /\ LET todo == _get_required_specialties_from_nlp(threads[t].nlp_data)
     IN threads' = [threads EXCEPT
          ![t].todo = todo,
          ![t].pc = IF todo = <<>> THEN "done" ELSE "delta_load"]
  /\ UNCHANGED <<hospitals, overlay, call, before, result, sends>>

\* Line 294, delta.get(specialty, 0).
LoadDelta(t) ==
  /\ threads[t].pc = "delta_load"
  /\ threads' = [threads EXCEPT
       ![t].pc = "delta_store",
       ![t].tmp = GetDefault(
          overlay[threads[t].hospital_id[1]].specialist_patients_delta,
          Head(threads[t].todo), 0)]
  /\ UNCHANGED <<hospitals, overlay, call, before, result, sends>>

\* Line 294, the write of delta[specialty]; then the next round of the loop.
StoreDelta(t) ==
  /\ threads[t].pc = "delta_store"
  /\ LET id == threads[t].hospital_id[1]
         specialty == Head(threads[t].todo)
         delta == overlay[id].specialist_patients_delta
     IN overlay' = [overlay EXCEPT ![id].specialist_patients_delta =
          [k \in (DOMAIN delta) \cup {specialty} |->
             IF k = specialty THEN threads[t].tmp + 1 ELSE delta[k]]]
  /\ threads' = [threads EXCEPT
       ![t].todo = Tail(threads[t].todo),
       ![t].pc = IF Tail(threads[t].todo) = <<>> THEN "done" ELSE "delta_load"]
  /\ UNCHANGED <<hospitals, call, before, result, sends>>

NextThreads ==
  \E t \in 1..NumThreads :
    \/ \E hospital_id \in ThreadIds, nlp_data \in RoutedCommits :
         Enter(t, hospital_id, nlp_data)
    \/ LoadEd(t)
    \/ StoreEd(t)
    \/ LoadIcu(t)
    \/ StoreIcu(t)
    \/ Specialties(t)
    \/ LoadDelta(t)
    \/ StoreDelta(t)

SpecThreads == InitThreads /\ [][NextThreads]_vars

(* ---------------------------------------------------------------------- *)
(* Properties                                                              *)
(* ---------------------------------------------------------------------- *)
MaxBeds == 3

Routed == call.op = "get_optimal_hospital"
Committed == call.op = "send_patient"

\* The overlay's deltas of a hospital, 0 where nothing is recorded.
EdDelta(ov, h) == GetDefault(OverlayOf(ov, h), "ed_beds_delta", 0)
IcuDelta(ov, h) == GetDefault(OverlayOf(ov, h), "icu_beds_delta", 0)
PatientDelta(ov, h, s) ==
  GetDefault(GetDefault(OverlayOf(ov, h), "specialist_patients_delta", <<>>), s, 0)

AllIds == {<<>>, N_A, N_B, N_C}

\* The eligible lines of the last routing call and their scores.
Eligible == _apply_hard_filters(hospitals, call.nlp_data, overlay)
ScoreOf(row) ==
  _score_hospital(row, EtaOf(row, call.etas), call.nlp_data, overlay)

\* C1: get_optimal_hospital returns None when no hospital passes the hard
\* filters, and otherwise the eligible hospital with the lowest score, the
\* first of them in input order when several share the lowest score.
C1_LowestScoreFirstInOrder ==
  Routed =>
    LET eligible == Eligible
        score == [i \in 1..Len(eligible) |-> ScoreOf(eligible[i])]
    IN IF eligible = <<>> THEN result = None
       ELSE /\ result # None
            /\ \E i \in 1..Len(eligible) :
                 /\ result[1].hospital_name = eligible[i]["hospital_name"]
                 /\ \A j \in 1..Len(eligible) : ~RLess(score[j], score[i])
                 /\ \A j \in 1..(i - 1) : RLess(score[i], score[j])

\* Two eligible hospitals share the lowest score and the first was returned.
C1_Witness ==
  /\ Routed
  /\ result # None
  /\ Len(Eligible) >= 2
  /\ REq(ScoreOf(Eligible[1]), ScoreOf(Eligible[2]))
  /\ result[1].hospital_name = Eligible[1]["hospital_name"]

\* The flag of a line is "yes" in some letter case.
FlagIsYes(row) ==
  /\ "ed_diversion_sim" \in DOMAIN row
  /\ Len(row["ed_diversion_sim"]) = 3
  /\ row["ed_diversion_sim"][1] \in {"y", "Y"}
  /\ row["ed_diversion_sim"][2] \in {"e", "E"}
  /\ row["ed_diversion_sim"][3] \in {"s", "S"}

\* C2: whatever send_patient calls came before, a hospital whose diversion
\* flag is "yes" in any letter case is in the output of _apply_hard_filters
\* for no request, and is never the hospital get_optimal_hospital returns.
C2_DivertedNeverEligible ==
  /\ \A nlp_data \in Requests :
       LET out == _apply_hard_filters(hospitals, nlp_data, overlay)
       IN \A i \in 1..Len(out) : ~FlagIsYes(out[i])
  /\ (Routed /\ result # None) =>
       \A i \in 1..Len(hospitals) :
         hospitals[i]["hospital_name"] = result[1].hospital_name
           => ~FlagIsYes(hospitals[i])

\* After a commit, a routing call returned a hospital from a dataset that
\* holds a hospital on diversion.
C2_Witness ==
  /\ Routed
  /\ result # None
  /\ overlay # <<>>
  /\ \E i \in 1..Len(hospitals) : FlagIsYes(hospitals[i])

\* The ICU beds of a line with the overlay's ICU delta added.
AdjustedIcu(row, ov) ==
  _num(Get(row, "available_icu_beds_sim")) + IcuDelta(ov, row["hospital_name"])

CriticalRequests == {r \in Requests : Acuity(r) <= 2}

Excluded(row, nlp_data, ov) ==
  LET out == _apply_hard_filters(hospitals, nlp_data, ov)
  IN \A i \in 1..Len(out) : out[i] # row

\* C3: after any send_patient calls, the hard filter of a critical request
\* (acuity <= 2) excludes every hospital whose ICU beds plus overlay ICU
\* delta is <= 0; and a hospital that had exactly 1 adjusted ICU bed when
\* send_patient was called for it with a critical request is excluded by
\* the next filter pass of a critical request.
C3_NoIcuNoCriticalPatient ==
  /\ \A i \in 1..Len(hospitals), nlp_data \in CriticalRequests :
       AdjustedIcu(hospitals[i], overlay) <= 0
         => Excluded(hospitals[i], nlp_data, overlay)
  /\ \A i \in 1..Len(hospitals), nlp_data \in CriticalRequests :
       ( /\ Committed
         /\ call.hospital_id = Some(hospitals[i]["hospital_name"])
         /\ Acuity(call.nlp_data) <= 2
         /\ AdjustedIcu(hospitals[i], before) = 1 )
         => Excluded(hospitals[i], nlp_data, overlay)

\* A critical patient was just sent to a hospital that is not on diversion
\* and had exactly 1 adjusted ICU bed.
C3_Witness ==
  /\ Committed
  /\ Acuity(call.nlp_data) <= 2
  /\ \E i \in 1..Len(hospitals) :
       /\ call.hospital_id = Some(hospitals[i]["hospital_name"])
       /\ AdjustedIcu(hospitals[i], before) = 1
       /\ ~Excluded(hospitals[i], call.nlp_data, before)

CalledId == IF call.hospital_id = None THEN <<>> ELSE call.hospital_id[1]

SameEntry(h) ==
  /\ EdDelta(overlay, h) = EdDelta(before, h)
  /\ IcuDelta(overlay, h) = IcuDelta(before, h)
  /\ \A s \in SPECIALTY_NAMES : PatientDelta(overlay, h, s) = PatientDelta(before, h, s)

\* C4: send_patient(H, request) changes the overlay entry of H alone: the
\* ED-bed, ICU-bed and per-specialty patient deltas of every other
\* identifier are what they were, and a call with an empty or null
\* identifier changes no entry.
C4_OnlyTargetEntryChanges ==
  Committed =>
    /\ \A h \in AllIds \ {CalledId} : SameEntry(h)
    /\ CalledId = <<>> => overlay = before

\* A patient was just sent to one hospital while the overlay held deltas of
\* another.
C4_Witness ==
  /\ Committed
  /\ CalledId # <<>>
  /\ EdDelta(overlay, CalledId) < EdDelta(before, CalledId)
  /\ \E h \in AllIds \ {CalledId} :
       EdDelta(before, h) < 0 /\ PatientDelta(before, h, "Cardiology") > 0

\* The canonical specialties a request requires: those its list maps to
\* when it carries a list, and the one its single specialty maps to
\* otherwise.
RequiredSet(nlp_data) ==
  LET texts == IF "required_specialties" \in DOMAIN nlp_data
               THEN {Some(nlp_data["required_specialties"][i]) :
                       i \in 1..Len(nlp_data["required_specialties"])}
               ELSE {Get(nlp_data, "required_specialty")}
  IN {c[1] : c \in {_nlp_specialty_to_column(t) : t \in texts} \ {None}}

\* C5: one send_patient(H, request) adds exactly 1 to H's patient delta of
\* every canonical specialty the request requires and 0 to every other;
\* list entries that map to the same specialty count once and entries that
\* map to none are ignored.
C5_OnePerRequiredSpecialty ==
  (Committed /\ CalledId # <<>>) =>
    \A s \in SPECIALTY_NAMES :
      PatientDelta(overlay, CalledId, s) - PatientDelta(before, CalledId, s)
        = IF s \in RequiredSet(call.nlp_data) THEN 1 ELSE 0

AllDone == \A t \in 1..NumThreads : threads[t].pc = "done"

\* The overlay after the calls of threads 1..n ran one after the other.
RECURSIVE InTurn(_)
InTurn(n) ==
  IF n = 0 THEN <<>>
  ELSE send_patient(InTurn(n - 1), threads[n].hospital_id, threads[n].nlp_data)

\* C6: when the concurrent send_patient calls have all completed, no write
\* was lost or applied twice: every ED-bed, ICU-bed and specialty delta is
\* the sum of the effects of the calls.
C6_NoLostUpdate ==
  AllDone =>
    \A h \in AllIds :
      /\ EdDelta(overlay, h) = EdDelta(InTurn(NumThreads), h)
      /\ IcuDelta(overlay, h) = IcuDelta(InTurn(NumThreads), h)
      /\ \A s \in SPECIALTY_NAMES :
           PatientDelta(overlay, h, s) = PatientDelta(InTurn(NumThreads), h, s)

WithoutSpecialty(nlp_data) ==
  [k \in (DOMAIN nlp_data) \ {"required_specialty"} |-> nlp_data[k]]

\* What the claim gives for the specialist term of a line, for specialty s.
ClaimedTerm(row, s, nlp_data, ov) ==
  LET specialists == _num(Get(row, col_doc(s)))
      patients == Max(0, _num(Get(row, col_pat(s)))
                           + PatientDelta(ov, row["hospital_name"], s))
  IN IF specialists >= 1 THEN Rat(20 * patients, specialists)
     ELSE IF Acuity(nlp_data) <= 2 THEN Rat(500, 1)
     ELSE Rat(0, 1)

\* C7: for a request whose required specialty maps to a canonical specialty
\* S, the score of a hospital exceeds its score for the same request without
\* the specialty by 20 x (current patients / specialists) when the hospital
\* has a specialist for S, by 500 when it has none and acuity <= 2, and by 0
\* when it has none and acuity > 2; 2 specialists and 3 patients add 30.
C7_SpecialistTerm ==
  /\ (Routed /\ _nlp_specialty_to_column(Get(call.nlp_data, "required_specialty")) # None) =>
       \A i \in 1..Len(hospitals) :
         LET s == _nlp_specialty_to_column(Get(call.nlp_data, "required_specialty"))[1]
             eta == EtaOf(hospitals[i], call.etas)
         IN REq(_score_hospital(hospitals[i], eta, call.nlp_data, overlay),
                RAdd(_score_hospital(hospitals[i], eta,
                                     WithoutSpecialty(call.nlp_data), overlay),
                     ClaimedTerm(hospitals[i], s, call.nlp_data, overlay)))
  /\ LET row == MkRow(N_A, T_no, <<"I">>, T_Yes, 1, 2, 2, 3)
         nlp_data == [acuity_level |-> 3, required_specialty |-> T_Cardiac]
     IN REq(_score_hospital(row, 5, nlp_data, <<>>),
            RAdd(_score_hospital(row, 5, WithoutSpecialty(nlp_data), <<>>),
                 Rat(30, 1)))

\* A critical cardiac request was routed over a dataset with a hospital
\* that has cardiologists and one that has none, after a commit.
C7_Witness ==
  /\ Routed
  /\ _nlp_specialty_to_column(Get(call.nlp_data, "required_specialty")) = Some("Cardiology")
  /\ Acuity(call.nlp_data) <= 2
  /\ PatientDelta(overlay, N_A, "Cardiology") > 0
  /\ \E i, j \in 1..Len(hospitals) :
       /\ _num(Get(hospitals[i], "specialists_Cardiology")) >= 1
       /\ hospitals[i]["hospital_name"] = N_A
       /\ _num(Get(hospitals[j], "specialists_Cardiology")) = 0

WithBeds(row, b) == [row EXCEPT !["available_ed_beds_sim"] = Numeral(b)]

ScoreWithBeds(row, b) == ScoreOf(WithBeds(row, b))

\* C8 as claimed: more available ED beds, all else fixed, give a strictly
\* lower score, for every hospital, request, ETA and overlay state.
C8_MoreBedsStrictlyLower ==
  Routed =>
    \A i \in 1..Len(hospitals) :
      LET score == [b \in 0..MaxBeds |-> ScoreWithBeds(hospitals[i], b)]
      IN \A b1, b2 \in 0..MaxBeds : b1 < b2 => RLess(score[b2], score[b1])

\* C8, amended: more available ED beds, all else fixed, never give a higher
\* score; the score is strictly lower when the larger count plus the
\* overlay's ED-bed delta is positive, and the same when it is not.
C8_MoreBedsLowerUnlessFloored ==
  Routed =>
    \A i \in 1..Len(hospitals) :
      LET score == [b \in 0..MaxBeds |-> ScoreWithBeds(hospitals[i], b)]
          delta == EdDelta(overlay, hospitals[i]["hospital_name"])
      IN \A b1, b2 \in 0..MaxBeds :
           b1 < b2 =>
             IF b2 + delta > 0 THEN RLess(score[b2], score[b1])
             ELSE REq(score[b2], score[b1])

\* A request was routed over a hospital whose ED-bed delta is negative.
C8_Witness ==
  /\ Routed
  /\ result # None
  /\ \E i \in 1..Len(hospitals) :
       EdDelta(overlay, hospitals[i]["hospital_name"]) < 0

\* C9 as claimed: in every result, specialist_ready is true exactly when
\* specialist_load is not None.
C9_ReadyIffLoad ==
  (Routed /\ result # None) =>
    (result[1].specialist_ready <=> result[1].specialist_load # None)

\* C9, amended: in every result, specialist_ready is true exactly when the
\* request's required specialty maps to no canonical specialty or
\* specialist_load is not None; with no canonical specialty the load is
\* None and the flag is true.
C9_ReadyIffLoadOrNoSpecialty ==
  (Routed /\ result # None) =>
    LET unmapped ==
          _nlp_specialty_to_column(Get(call.nlp_data, "required_specialty")) = None
    IN /\ result[1].specialist_ready
            <=> (unmapped \/ result[1].specialist_load # None)
       /\ unmapped => result[1].specialist_load = None

\* A result for a request with no required specialty: the flag is true and
\* the load is None.
C9_Witness ==
  /\ Routed
  /\ result # None
  /\ "required_specialty" \notin DOMAIN call.nlp_data
  /\ result[1].specialist_ready
  /\ result[1].specialist_load = None

\* The load _score_hospital uses for a line and a request, under overlay ov.
LoadUsed(row, nlp_data, ov) ==
  _get_specialist_load(
    row, _nlp_specialty_to_column(Get(nlp_data, "required_specialty")),
    row["hospital_name"], ov)

\* C10: after send_patient(H, R), for R whose required_specialty maps to a
\* canonical specialty S and H with at least one specialist for S and a
\* base patient count >= 0, the load _score_hospital uses for H and R is
\* strictly greater than before the call.
C10_LoadRisesAfterCommit ==
  \A i \in 1..Len(hospitals) :
    ( /\ Committed
      /\ call.hospital_id = Some(hospitals[i]["hospital_name"])
      /\ LoadUsed(hospitals[i], call.nlp_data, before) # None
      /\ _num(Get(hospitals[i],
                   col_pat(_nlp_specialty_to_column(
                             Get(call.nlp_data, "required_specialty"))[1]))) >= 0 )
      => RLess(LoadUsed(hospitals[i], call.nlp_data, before)[1],
               LoadUsed(hospitals[i], call.nlp_data, overlay)[1])

====
